---- MODULE Spec2Model ----
(***************************************************************************)
(* MAX1238 / MAX1239 I2C ADC drivers (src/max1238.py, src/max1239.py).     *)
(*                                                                         *)
(* The state is the device on the bus (its retained setup and config       *)
(* registers, the last message seen on the bus) and, per caller thread,    *)
(* the position inside one driver call: the request, the _xfer frame, the  *)
(* i2c_rdwr calls still to be issued by the current attempt, what the call *)
(* has done on the bus so far, and how the call ended.                     *)
(***************************************************************************)
EXTENDS Integers, Sequences, FiniteSets, TLC

VARIABLES pc, req, xf, pending, hist, out, devSetup, devConfig, busLast, seed, dw

vars == <<pc, req, xf, pending, hist, out, devSetup, devConfig, busLast, seed, dw>>

(***************************************************************************)
(* Bounds of the model.                                                    *)
(***************************************************************************)
\* requested channels, starts and ends run over -ChanSlack .. 11 + ChanSlack
ChanSlack == 1
\* the analog inputs of the device are one of NumSeeds fixed patterns
NumSeeds == 2
\* a bus read may return up to MaxLenDelta bytes fewer or more than asked
MaxLenDelta == 2
\* retries passed to a direct _xfer call run over -1 .. MaxRetries
MaxRetries == 2

Callers == {"c1", "c2"}

(***************************************************************************)
(* Enumerations of max1238.py, by value.                                   *)
(***************************************************************************)
SingleEnded == 1
Differential == 0
InputMode == {SingleEnded, Differential}

ClockType == {0, 1}
Polarity == {0, 1}
ResetMode == {0, 1}

ScanAIN0ToCS == 0
RepeatSelect8x == 1
ScanAIN6ToCS == 2
ConvertSelected == 3
ScanMode == {ScanAIN0ToCS, RepeatSelect8x, ScanAIN6ToCS, ConvertSelected}

ReferenceVoltage == {0, 2, 4, 5, 6, 7}

\* highest channel of the MAX1238 (channel must be 0..11)
LastChannel == 11
\* default of the retries parameter of _xfer
DefaultRetries == 1

(***************************************************************************)
(* Python's integer operators on non-negative integers.                    *)
(***************************************************************************)
RECURSIVE BitAnd(_, _)
BitAnd(a, b) ==
    IF a = 0 \/ b = 0 THEN 0
    ELSE (a % 2) * (b % 2) + 2 * BitAnd(a \div 2, b \div 2)

RECURSIVE BitOr(_, _)
BitOr(a, b) ==
    IF a = 0 THEN b
    ELSE IF b = 0 THEN a
    ELSE (IF a % 2 = 1 \/ b % 2 = 1 THEN 1 ELSE 0) + 2 * BitOr(a \div 2, b \div 2)

Shl(a, k) == a * (2 ^ k)

Shr(a, k) == a \div (2 ^ k)

Min(a, b) == IF a < b THEN a ELSE b

\* s[lo:hi] of a Python list, 0-based, for 0 <= lo
Slice(s, lo, hi) ==
    LET h == Min(hi, Len(s))
    IN  IF lo >= h THEN << >> ELSE SubSeq(s, lo + 1, h)

\* list(range(lo, hi + 1))
RangeSeq(lo, hi) == IF hi < lo THEN << >> ELSE [i \in 1..(hi - lo + 1) |-> lo + i - 1]

(***************************************************************************)
(* How a call ends: a raised exception or a returned value.                *)
(***************************************************************************)
NoOutcome == [kind |-> "none", tag |-> "", val |-> << >>, keys |-> << >>]

Raise(e) == [kind |-> e, tag |-> "", val |-> << >>, keys |-> << >>]

RetNone == [kind |-> "return", tag |-> "None", val |-> << >>, keys |-> << >>]

RetInt(n) == [kind |-> "return", tag |-> "int", val |-> <<n>>, keys |-> << >>]

RetList(s) == [kind |-> "return", tag |-> "list", val |-> s, keys |-> << >>]

RetDict(k, v) == [kind |-> "return", tag |-> "dict", val |-> v, keys |-> k]

(***************************************************************************)
(* Byte builders.                                                          *)
(***************************************************************************)
\* (variant: the reference-voltage field at bit 6, as in max1239.py)
build_setup_byte_ref_at_6(referenceVoltage, clock, polarity, reset) ==
    BitOr(BitOr(BitOr(BitOr(BitOr(Shl(1, 7), Shl(referenceVoltage, 6)),
                            Shl(clock, 3)),
                      Shl(polarity, 2)),
                Shl(reset, 1)),
          0)

\* REG=1, then SEL[2:0], CLK, BIP/UNI, RST, X
build_setup_byte(referenceVoltage, clock, polarity, reset) ==
    BitOr(BitOr(BitOr(BitOr(BitOr(Shl(1, 7), Shl(referenceVoltage, 4)),
                            Shl(clock, 3)),
                      Shl(polarity, 2)),
                Shl(reset, 1)),
          0)

ConfigChannelOk(channel) == 0 <= channel /\ channel <= LastChannel

\* (variant: the scan field one bit too high)
ConfigByteScanAt6(scan, channel, mode) ==
    BitOr(BitOr(BitOr(Shl(0, 7), Shl(scan, 6)),
                Shl(BitAnd(channel, 15), 1)),
          BitAnd(mode, 1))

\* (variant: the REG bit of a config byte is set)
ConfigByteRegSet(scan, channel, mode) ==
    BitOr(BitOr(BitOr(Shl(1, 7), Shl(scan, 5)),
                Shl(BitAnd(channel, 15), 1)),
          BitAnd(mode, 1))

\* the value returned when the channel check passes
ConfigByte(scan, channel, mode) ==
    BitOr(BitOr(BitOr(Shl(0, 7), Shl(scan, 5)),
                Shl(BitAnd(channel, 15), 1)),
          BitAnd(mode, 1))

build_config_byte(scan, channel, mode) ==
    IF ~ConfigChannelOk(channel) THEN Raise("ValueError")
    ELSE RetInt(ConfigByte(scan, channel, mode))

(***************************************************************************)
(* Requests, _xfer frames, bus messages.                                   *)
(***************************************************************************)
\* op: the operation; a, b, c, d: its integer arguments in order of the
\* signature (the input mode always in d); wkind, wbytes: the write_bytes
\* argument of a direct _xfer call ("None", "int" or "seq")
Req(op, a, b, c, d, wkind, wbytes) ==
    [op |-> op, a |-> a, b |-> b, c |-> c, d |-> d, wkind |-> wkind, wbytes |-> wbytes]

NoReq == Req("none", 0, 0, 0, 0, "None", << >>)

Frame(has_write, to_write, read_len, retries) ==
    [has_write |-> has_write, to_write |-> to_write, read_len |-> read_len,
     retries |-> retries, attempt |-> 0]

NoFrame == Frame(FALSE, << >>, 0, 0)

\* i2c_msg.write(address, data) and i2c_msg.read(address, length)
WriteMsg(data) == [kind |-> "w", bytes |-> data, len |-> 0]

ReadMsg(length) == [kind |-> "r", bytes |-> << >>, len |-> length]

NoMsg == [by |-> "none", kind |-> "none", bytes |-> << >>, len |-> 0]

\* what a call has done so far: tx i2c transfers issued, sleeps taken, the
\* transfers sent (attempt, messages, fault site), for every read that was
\* delivered the bus message right before it, and the bytes last read
NoHist == [tx |-> 0, sleeps |-> 0, sent |-> << >>, readPrev |-> << >>, raw |-> << >>]

(***************************************************************************)
(* _xfer: normalisation of the write payload, the messages of an attempt,  *)
(* the retry loop's conditions.                                            *)
(***************************************************************************)
ByteOk(b) == 0 <= b /\ b <= 255

\* (variant: read_len is not checked)
XferRejectsBytesOnly(wkind, wbytes, read_len) ==
    \/ wkind = "int" /\ ~ByteOk(wbytes[1])
    \/ wkind = "seq" /\ \E i \in 1..Len(wbytes) : wbytes[i] < 0 \/ wbytes[i] > 255

\* lines 73-85: TRUE when _xfer raises ValueError before its loop
XferRejects(wkind, wbytes, read_len) ==
    \/ wkind = "int" /\ ~ByteOk(wbytes[1])
    \/ wkind = "seq" /\ \E i \in 1..Len(wbytes) : wbytes[i] < 0 \/ wbytes[i] > 255
    \/ read_len < 0

\* msgs of one loop iteration (lines 91-95)
XferMsgs(has_write, to_write, read_len) ==
    (IF has_write THEN <<WriteMsg(to_write)>> ELSE << >>)
        \o (IF read_len # 0 THEN <<ReadMsg(read_len)>> ELSE << >>)

\* (variant: each message in an i2c_rdwr call of its own)
XferCallsSplit(has_write, to_write, read_len) ==
    LET msgs == XferMsgs(has_write, to_write, read_len)
    IN  [i \in 1..Len(msgs) |-> <<msgs[i]>>]

\* (variant: i2c_rdwr is called even with no message)
XferCallsAlways(has_write, to_write, read_len) == <<XferMsgs(has_write, to_write, read_len)>>

\* the i2c_rdwr calls of one loop iteration: none when msgs is empty, else
\* one call carrying all the messages (line 99)
XferCalls(has_write, to_write, read_len) ==
    LET msgs == XferMsgs(has_write, to_write, read_len)
    IN  IF Len(msgs) = 0 THEN << >> ELSE <<msgs>>

\* (variant: a retry resumes at the read)
RetryCallsReadOnly(has_write, to_write, read_len) == XferCalls(FALSE, << >>, read_len)

\* the i2c_rdwr calls of a retry: the loop body runs again from line 91, so
\* msgs is built again from to_write and read_len
RetryCalls(has_write, to_write, read_len) == XferCalls(has_write, to_write, read_len)

\* while attempt <= retries (line 89)
LoopRuns(attempt, retries) == attempt <= retries

\* (variant: one attempt too few)
RetriesExhaustedEarly(attempt, retries) == attempt + 1 >= retries

\* if attempt == retries: raise (line 103)
RetriesExhausted(attempt, retries) == attempt = retries

\* (variant: the fault is swallowed and an empty list returned)
XferFaultSwallowed == RetList(<< >>)

\* raise (line 104): the OSError of the last attempt leaves _xfer
XferFault == Raise("OSError")

(***************************************************************************)
(* The device and the bus, as the drivers see them.                        *)
(***************************************************************************)
\* the 12-bit conversion result of channel ch under analog pattern sd
Sample(sd, ch) == (sd * 1111 + ch * 273 + 165) % 4096

\* the four bits the device sends above a result's high nibble
PadBits(sd) == (15 - 5 * sd) % 16

\* the channels one read converts, in order, from the config byte
\* (SCAN1 SCAN0 in bits 6..5, CS3..CS0 in bits 4..1)
ScanChannels(cfg) ==
    LET scan == (cfg \div 32) % 4
        cs   == (cfg \div 2) % 16
    IN  CASE scan = ScanAIN0ToCS   -> RangeSeq(0, cs)
          [] scan = RepeatSelect8x -> [i \in 1..8 |-> cs]
          [] scan = ScanAIN6ToCS   -> IF cs >= 6 THEN RangeSeq(6, cs) ELSE <<cs>>
          [] OTHER                  -> <<cs>>

\* the n bytes the device sends for config byte cfg: the results of the
\* scanned channels, two bytes each (pad and high nibble, then low byte),
\* the scan repeating while the master keeps reading
DevResponse(cfg, sd, n) ==
    LET chans == ScanChannels(cfg)
        word(k) == Sample(sd, chans[(k % Len(chans)) + 1])
    IN  [i \in 1..n |->
            IF i % 2 = 1 THEN PadBits(sd) * 16 + (word((i - 1) \div 2) \div 256)
            ELSE word((i - 1) \div 2) % 256]

\* a written byte lands in the setup register (REG = 1) or the config
\* register (REG = 0); st is [setup, config, last, raw, prevs]
RECURSIVE DevWrite(_, _)
DevWrite(st, bytes) ==
    IF bytes = << >> THEN st
    ELSE DevWrite(IF Head(bytes) >= 128 THEN [st EXCEPT !.setup = Head(bytes)]
                  ELSE [st EXCEPT !.config = Head(bytes)],
                  Tail(bytes))

\* one message of caller c delivered; a read returns m.len + delta bytes
DeliverMsg(st, m, c, sd, delta) ==
    IF m.kind = "w"
    THEN [DevWrite(st, m.bytes) EXCEPT
            !.last = [by |-> c, kind |-> "w", bytes |-> m.bytes, len |-> 0]]
    ELSE [st EXCEPT
            !.raw = DevResponse(st.config, sd, IF m.len + delta < 0 THEN 0 ELSE m.len + delta),
            !.prevs = Append(@, st.last),
            !.last = [by |-> c, kind |-> "r", bytes |-> << >>, len |-> m.len]]

RECURSIVE Deliver(_, _, _, _, _)
Deliver(st, msgs, c, sd, delta) ==
    IF msgs = << >> THEN st
    ELSE Deliver(DeliverMsg(st, Head(msgs), c, sd, delta), Tail(msgs), c, sd, delta)

HasRead(msgs) == \E i \in 1..Len(msgs) : msgs[i].kind = "r"

(***************************************************************************)
(* High-level operations of Max1238: validation, scan planning, decoding.  *)
(***************************************************************************)
\* (variant: the padding bits are not masked off)
Decode12NoMask(msb, lsb) == BitOr(Shl(msb, 8), lsb)

\* (variant: the mask keeps three bits of the high byte)
Decode12Mask7(msb, lsb) == BitOr(Shl(BitAnd(msb, 7), 8), lsb)

\* ((msb & 0x0F) << 8) | lsb
Decode12(msb, lsb) == BitOr(Shl(BitAnd(msb, 15), 8), lsb)

\* 0 <= start_channel <= end_channel <= 11 (line 173)
RangeOk(start_channel, end_channel) ==
    0 <= start_channel /\ start_channel <= end_channel /\ end_channel <= LastChannel

\* (variant: count = 0 passes)
MultipleOkZeroCount(start_channel, count) ==
    /\ 0 <= start_channel /\ start_channel <= LastChannel
    /\ 0 <= count /\ count <= 12 - start_channel

\* 0 <= start_channel <= 11 and 1 <= count <= 12 - start_channel (line 198)
MultipleOk(start_channel, count) ==
    /\ 0 <= start_channel /\ start_channel <= LastChannel
    /\ 1 <= count /\ count <= 12 - start_channel

\* (variant: a scan from channel 6 starts at channel 0)
ScanBaseAbove6(start_channel) == IF start_channel > 6 THEN 6 ELSE 0

\* the scan origin and the scan mode of a block read (lines 176-181, 202-205)
ScanBase(start_channel) == IF start_channel >= 6 THEN 6 ELSE 0

ScanOf(start_channel) == IF start_channel >= 6 THEN ScanAIN6ToCS ELSE ScanAIN0ToCS

\* words = [((raw[i] & 0x0F) << 8) | raw[i + 1] for i in range(0, len(raw), 2)];
\* for a raw of odd length the last raw[i + 1] raises IndexError
Words(raw) == [k \in 1..(Len(raw) \div 2) |-> Decode12(raw[2 * k - 1], raw[2 * k])]

\* read_single after _xfer returned raw: msb, lsb = raw unpacks exactly two
\* values, else ValueError
FinishSingle(raw) ==
    IF Len(raw) # 2 THEN Raise("ValueError")
    ELSE RetInt(Decode12(raw[1], raw[2]))

\* read_range after _xfer returned raw (lines 187-190): zip stops at the
\* shorter of channels and words; results[ch] of a missing ch is a KeyError
FinishRange(start_channel, end_channel, raw) ==
    LET base     == ScanBase(start_channel)
        words    == Words(raw)
        channels == RangeSeq(base, end_channel)
        zipped   == Min(Len(channels), Len(words))
        wanted   == RangeSeq(start_channel, end_channel)
    IN  IF Len(raw) % 2 = 1 THEN Raise("IndexError")
        ELSE IF \E i \in 1..Len(wanted) : wanted[i] - base + 1 > zipped
             THEN Raise("KeyError")
        ELSE RetDict(wanted, [i \in 1..Len(wanted) |-> words[wanted[i] - base + 1]])

\* (variant: the leading samples are not dropped)
FinishMultipleNoDrop(start_channel, count, raw) ==
    IF Len(raw) % 2 = 1 THEN Raise("IndexError")
    ELSE RetList(Slice(Words(raw), 0, count))

\* read_multiple after _xfer returned raw (lines 211-213)
FinishMultiple(start_channel, count, raw) ==
    LET drop == start_channel - ScanBase(start_channel)
    IN  IF Len(raw) % 2 = 1 THEN Raise("IndexError")
        ELSE RetList(Slice(Words(raw), drop, drop + count))

(***************************************************************************)
(* Max1239.                                                                *)
(***************************************************************************)
\* 0 << 7 | scan << 6 | channel << 4 | inputMode.value
create_config_binary(scan, channel, inputMode) ==
    IF scan > 3 \/ scan < 0 THEN Raise("ValueError")
    ELSE IF channel > LastChannel \/ channel < 0 THEN Raise("ValueError")
    ELSE RetInt(BitOr(BitOr(BitOr(Shl(0, 7), Shl(scan, 6)), Shl(channel, 4)), inputMode))

\* (res[0] << 4) | (res[1] >> 4); res[1] of a shorter res raises IndexError
FinishChannel(res) ==
    IF Len(res) < 2 THEN Raise("IndexError")
    ELSE RetInt(BitOr(Shl(res[1], 4), Shr(res[2], 4)))

\* what the operation of request r makes of the bytes its transfer returned
Finish(r, raw) ==
    CASE r.op = "read_single"   -> FinishSingle(raw)
      [] r.op = "read_range"    -> FinishRange(r.a, r.b, raw)
      [] r.op = "read_multiple" -> FinishMultiple(r.a, r.b, raw)
      [] r.op = "setup_adc"     -> RetNone
      [] r.op = "read_channel"  -> FinishChannel(raw)
      [] OTHER                  -> RetList(raw)

(***************************************************************************)
(* Steps of a call.                                                        *)
(***************************************************************************)
\* the call of caller c ends at once, without a transfer
EndCall(c, r, o) ==
    /\ pc' = [pc EXCEPT ![c] = "done"]
    /\ req' = [req EXCEPT ![c] = r]
    /\ out' = [out EXCEPT ![c] = o]
    /\ xf' = [xf EXCEPT ![c] = NoFrame]
    /\ pending' = [pending EXCEPT ![c] = << >>]
    /\ hist' = [hist EXCEPT ![c] = NoHist]
    /\ UNCHANGED <<devSetup, devConfig, busLast, seed, dw>>

\* the operation of request r calls _xfer(write_bytes, read_len, retries):
\* lines 72-97 up to the first i2c_rdwr, and lines 109-111 when the loop
\* body never runs
XferEnter(c, r, wkind, wbytes, read_len, retries) ==
    LET has_write == wkind # "None"
        calls     == XferCalls(has_write, wbytes, read_len)
    IN  IF XferRejects(wkind, wbytes, read_len) THEN EndCall(c, r, Raise("ValueError"))
        ELSE IF ~LoopRuns(0, retries) \/ calls = << >> THEN EndCall(c, r, Finish(r, << >>))
        ELSE /\ pc' = [pc EXCEPT ![c] = "bus"]
             /\ req' = [req EXCEPT ![c] = r]
             /\ out' = [out EXCEPT ![c] = NoOutcome]
             /\ xf' = [xf EXCEPT ![c] = Frame(has_write, wbytes, read_len, retries)]
             /\ pending' = [pending EXCEPT ![c] = calls]
             /\ hist' = [hist EXCEPT ![c] = NoHist]
             /\ UNCHANGED <<devSetup, devConfig, busLast, seed, dw>>

\* Max1238.setup_adc
setup_adc(c, refs, clocks, polarities, resets) ==
    /\ pc[c] = "idle"
    /\ \E referenceVoltage \in refs, clock \in clocks, polarity \in polarities, reset \in resets :
         XferEnter(c, Req("setup_adc", referenceVoltage, clock, polarity, reset, "None", << >>),
                   "int", <<build_setup_byte(referenceVoltage, clock, polarity, reset)>>,
                   0, DefaultRetries)

\* Max1238.read_single
read_single(c, channels, modes) ==
    /\ pc[c] = "idle"
    /\ \E channel \in channels, mode \in modes :
         LET r   == Req("read_single", channel, 0, 0, mode, "None", << >>)
             cfg == build_config_byte(ConvertSelected, channel, mode)
         IN  IF cfg.kind # "return" THEN EndCall(c, r, cfg)
             ELSE XferEnter(c, r, "int", cfg.val, 2, DefaultRetries)

\* Max1238.read_range
read_range(c, channels, modes) ==
    /\ pc[c] = "idle"
    /\ \E start_channel \in channels, end_channel \in channels, mode \in modes :
         LET r     == Req("read_range", start_channel, end_channel, 0, mode, "None", << >>)
             cfg   == build_config_byte(ScanOf(start_channel), end_channel, mode)
             n_res == end_channel - ScanBase(start_channel) + 1
         IN  IF ~RangeOk(start_channel, end_channel) THEN EndCall(c, r, Raise("ValueError"))
             ELSE IF cfg.kind # "return" THEN EndCall(c, r, cfg)
             ELSE XferEnter(c, r, "int", cfg.val, 2 * n_res, DefaultRetries)

\* Max1238.read_multiple
read_multiple(c, channels, counts, modes) ==
    /\ pc[c] = "idle"
    /\ \E start_channel \in channels, count \in counts, mode \in modes :
         LET r         == Req("read_multiple", start_channel, count, 0, mode, "None", << >>)
             end_ch    == start_channel + count - 1
             cfg       == build_config_byte(ScanOf(start_channel), end_ch, mode)
             n_results == end_ch - ScanBase(start_channel) + 1
         IN  IF ~MultipleOk(start_channel, count) THEN EndCall(c, r, Raise("ValueError"))
             ELSE IF cfg.kind # "return" THEN EndCall(c, r, cfg)
             ELSE XferEnter(c, r, "int", cfg.val, 2 * n_results, DefaultRetries)

\* Max1238._xfer called directly
xfer(c, payloads, lengths, retry_counts) ==
    /\ pc[c] = "idle"
    /\ \E w \in payloads, read_len \in lengths, retries \in retry_counts :
         XferEnter(c, Req("_xfer", read_len, retries, 0, 0, w[1], w[2]),
                   w[1], w[2], read_len, retries)

\* the decoding of one word (lines 164-165, 187-190, 211-213): the read of
\* one channel whose transfer returned the pair (hi, lo) that carries the
\* sample v under the padding bits pad
decode_word(c, ops, samples, pads) ==
    /\ pc[c] = "idle"
    /\ \E op \in ops, v \in samples, pad \in pads :
         LET r   == Req(op, 0, IF op = "read_multiple" THEN 1 ELSE 0, 0, SingleEnded, "None", << >>)
             raw == <<pad * 16 + Shr(v, 8), BitAnd(v, 255)>>
         IN  /\ pc' = [pc EXCEPT ![c] = "done"]
             /\ req' = [req EXCEPT ![c] = r]
             /\ out' = [out EXCEPT ![c] = Finish(r, raw)]
             /\ xf' = [xf EXCEPT ![c] = NoFrame]
             /\ pending' = [pending EXCEPT ![c] = << >>]
             /\ hist' = [hist EXCEPT ![c] = [NoHist EXCEPT !.raw = raw]]
             /\ UNCHANGED <<devSetup, devConfig, busLast, seed, dw>>

\* Max1238._build_setup_byte called directly
call_build_setup_byte(c, refs, clocks, polarities, resets) ==
    /\ pc[c] = "idle"
    /\ \E referenceVoltage \in refs, clock \in clocks, polarity \in polarities, reset \in resets :
         EndCall(c, Req("_build_setup_byte", referenceVoltage, clock, polarity, reset, "None", << >>),
                 RetInt(build_setup_byte(referenceVoltage, clock, polarity, reset)))

\* Max1238._build_config_byte called directly
call_build_config_byte(c, scans, channels, modes) ==
    /\ pc[c] = "idle"
    /\ \E scan \in scans, channel \in channels, mode \in modes :
         EndCall(c, Req("_build_config_byte", scan, channel, 0, mode, "None", << >>),
                 build_config_byte(scan, channel, mode))

\* Max1239.create_config_binary called directly
call_create_config_binary(c, scans, channels, modes) ==
    /\ pc[c] = "idle"
    /\ \E scan \in scans, channel \in channels, inputMode \in modes :
         EndCall(c, Req("create_config_binary", scan, channel, 0, inputMode, "None", << >>),
                 create_config_binary(scan, channel, inputMode))

\* Max1239.read_channel: a ValueError of create_config_binary is printed and
\* None returned; else write_byte(config), a sleep, and
\* read_i2c_block_data(address, 0x00, 2), which writes the command byte 0 and
\* reads two bytes in one transfer; an OSError of either is not caught
read_channel(c, scans, channels, modes) ==
    /\ pc[c] = "idle"
    /\ \E scan \in scans, channel \in channels, inputMode \in modes :
         LET r      == Req("read_channel", scan, channel, 0, inputMode, "None", << >>)
             config == create_config_binary(scan, channel, inputMode)
         IN  IF config.kind # "return" THEN EndCall(c, r, RetNone)
             ELSE /\ pc' = [pc EXCEPT ![c] = "bus"]
                  /\ req' = [req EXCEPT ![c] = r]
                  /\ out' = [out EXCEPT ![c] = NoOutcome]
                  /\ xf' = [xf EXCEPT ![c] = NoFrame]
                  /\ pending' = [pending EXCEPT ![c] =
                        << <<WriteMsg(config.val)>>, <<WriteMsg(<<0>>), ReadMsg(2)>> >>]
                  /\ hist' = [hist EXCEPT ![c] = NoHist]
                  /\ UNCHANGED <<devSetup, devConfig, busLast, seed, dw>>

\* one i2c_rdwr of caller c's current attempt reaches the bus: it faults at
\* message f (f = 0: no fault) after delivering the messages before it, a
\* read returns delta bytes more than asked, and the code after it runs to
\* the next transfer or to the end of the call
BusTransfer(c, deltas) ==
    /\ pc[c] = "bus"
    /\ \E f \in 0..Len(Head(pending[c])), delta \in deltas :
         LET msgs == Head(pending[c])
             sent == IF f = 0 THEN msgs ELSE SubSeq(msgs, 1, f - 1)
             st0  == [setup |-> devSetup, config |-> devConfig, last |-> busLast,
                      raw |-> << >>, prevs |-> << >>]
             st   == Deliver(st0, sent, c, seed, delta)
             h    == [hist[c] EXCEPT
                        !.tx = @ + 1,
                        !.sent = Append(@, [attempt |-> xf[c].attempt, msgs |-> msgs, fault |-> f]),
                        !.readPrev = @ \o st.prevs,
                        !.raw = IF HasRead(sent) THEN st.raw ELSE @]
             ret  == IF HasRead(msgs) THEN st.raw ELSE << >>
         IN  /\ devSetup' = st.setup
             /\ devConfig' = st.config
             /\ busLast' = st.last
             /\ UNCHANGED <<req, seed, dw>>
             /\ IF f = 0
                THEN IF Len(pending[c]) > 1
                     THEN /\ pending' = [pending EXCEPT ![c] = Tail(@)]
                          /\ hist' = [hist EXCEPT ![c] = h]
                          /\ UNCHANGED <<pc, xf, out>>
                     ELSE /\ pending' = [pending EXCEPT ![c] = << >>]
                          /\ hist' = [hist EXCEPT ![c] = h]
                          /\ pc' = [pc EXCEPT ![c] = "done"]
                          /\ out' = [out EXCEPT ![c] = Finish(req[c], ret)]
                          /\ UNCHANGED xf
                ELSE IF RetriesExhausted(xf[c].attempt, xf[c].retries)
                     THEN /\ pending' = [pending EXCEPT ![c] = << >>]
                          /\ hist' = [hist EXCEPT ![c] = h]
                          /\ pc' = [pc EXCEPT ![c] = "done"]
                          /\ out' = [out EXCEPT ![c] = XferFault]
                          /\ UNCHANGED xf
                     ELSE /\ hist' = [hist EXCEPT ![c] = [h EXCEPT !.sleeps = @ + 1]]
                          /\ xf' = [xf EXCEPT ![c].attempt = @ + 1]
                          /\ IF LoopRuns(xf[c].attempt + 1, xf[c].retries)
                             THEN /\ pending' = [pending EXCEPT ![c] =
                                        RetryCalls(xf[c].has_write, xf[c].to_write, xf[c].read_len)]
                                  /\ UNCHANGED <<pc, out>>
                             ELSE /\ pending' = [pending EXCEPT ![c] = << >>]
                                  /\ pc' = [pc EXCEPT ![c] = "done"]
                                  /\ out' = [out EXCEPT ![c] = Raise("OSError")]

\* the caller takes the result; the thread is free for its next call
Return(c) ==
    /\ pc[c] = "done"
    /\ pc' = [pc EXCEPT ![c] = "idle"]
    /\ req' = [req EXCEPT ![c] = NoReq]
    /\ out' = [out EXCEPT ![c] = NoOutcome]
    /\ xf' = [xf EXCEPT ![c] = NoFrame]
    /\ hist' = [hist EXCEPT ![c] = NoHist]
    /\ UNCHANGED <<pending, devSetup, devConfig, busLast, seed, dw>>

(***************************************************************************)
(* whs.py: draw_water, the valve and the signal handler.  Time is in       *)
(* seconds, flow in 1/100 GPM, volume in 1/6000 gal (1/100 GPM for 1 s).   *)
(***************************************************************************)
MAX_RUN_MINUTES == 5

MIN_FLOW_CENTI_GPM == 5

LOW_FLOW_TIMEOUT_S == 20

\* the largest target volume drawn, in gal
MaxTargetGal == 2

\* the target_vol_gal arguments: None, a negative volume, zero, and whole
\* gallons
Targets ==
    {[none |-> TRUE, vol |-> 0], [none |-> FALSE, vol |-> 0 - 6000], [none |-> FALSE, vol |-> 0]}
        \cup {[none |-> FALSE, vol |-> 6000 * g] : g \in 1..MaxTargetGal}

\* by how much time.monotonic() has advanced since it was last read
ClockSteps == {0, 10, 150}

\* what one round of read_temps() and read_flow_gpm() gives: an exception of
\* Max1238.read_single (the OSError of a persistent bus fault, a
\* ValueError), a NaN (read_single is typed Optional[int], and a None raw
\* makes a NaN), or a flow: below 4 mA, under MIN_FLOW_GPM, 6 GPM
SensorRounds ==
    {[kind |-> "raise", flow |-> 0], [kind |-> "nan", flow |-> 0]}
        \cup {[kind |-> "flow", flow |-> f] : f \in {0 - 225, 4, 600}}

\* the valve pin after GPIO.setup(VALVE_PIN, GPIO.OUT, initial=GPIO.LOW),
\* before draw_water is called
DrawIdle ==
    [pc |-> "idle", none |-> FALSE, target |-> 0, vol |-> 0, clock |-> 0, start |-> 0,
     t_prev |-> 0, low_set |-> FALSE, low_flow_start |-> 0, valve |-> "LOW",
     opened |-> FALSE, exiting |-> FALSE, why |-> "", ret |-> 0]

\* (variant: the pin is left as it is)
fail_safe_close_skipped(valve) == valve

\* _fail_safe_close: GPIO.output(VALVE_PIN, GPIO.LOW)
fail_safe_close(valve) == "LOW"

adcVars == <<pc, req, xf, pending, hist, out, devSetup, devConfig, busLast, seed>>

\* draw_water(target_vol_gal) up to line 113: the target check, the locals
draw_water(targets, steps) ==
    /\ dw.pc = "idle"
    /\ \E t \in targets, step \in steps :
         IF t.none \/ t.vol <= 0
         THEN dw' = [dw EXCEPT !.pc = "returned", !.none = t.none, !.target = t.vol,
                               !.why = "invalid", !.ret = 0]
         ELSE dw' = [dw EXCEPT !.pc = "open", !.none = FALSE, !.target = t.vol,
                               !.vol = 0, !.clock = @ + step, !.start = dw.clock + step,
                               !.low_set = FALSE]
    /\ UNCHANGED adcVars

\* line 116: GPIO.output(VALVE_PIN, GPIO.HIGH), ahead of the try
OpenValve ==
    /\ dw.pc = "open"
    /\ dw' = [dw EXCEPT !.pc = "try", !.valve = "HIGH", !.opened = TRUE]
    /\ UNCHANGED adcVars

\* lines 118-119: the try is entered, t_prev = time.monotonic()
EnterTry(steps) ==
    /\ dw.pc = "try"
    /\ \E step \in steps :
         dw' = [dw EXCEPT !.pc = "loop", !.clock = @ + step, !.t_prev = dw.clock + step]
    /\ UNCHANGED adcVars

\* lines 120-157: the loop test and one pass of the loop body
LoopPass(steps, rounds) ==
    /\ dw.pc = "loop"
    /\ IF ~(dw.vol < dw.target)
       THEN dw' = [dw EXCEPT !.pc = "finally", !.why = "target"]
       ELSE \E step \in steps, round \in rounds :
              LET now   == dw.clock + step
                  dt    == now - dw.t_prev
                  timed == [dw EXCEPT !.clock = now, !.t_prev = now]
                  flow  == round.flow
                  added == [timed EXCEPT !.vol = @ + (IF flow > 0 THEN flow ELSE 0) * dt]
              IN  IF (now - dw.start) > MAX_RUN_MINUTES * 60
                  THEN dw' = [timed EXCEPT !.pc = "finally", !.why = "timeout"]
                  ELSE IF round.kind = "raise"
                  THEN dw' = [timed EXCEPT !.pc = "except", !.why = "exception"]
                  ELSE IF round.kind = "nan"
                  THEN dw' = [timed EXCEPT !.pc = "finally", !.why = "nan"]
                  ELSE IF flow < MIN_FLOW_CENTI_GPM
                  THEN IF ~dw.low_set
                       THEN dw' = [added EXCEPT !.low_set = TRUE, !.low_flow_start = now]
                       ELSE IF (now - dw.low_flow_start) >= LOW_FLOW_TIMEOUT_S
                       THEN dw' = [added EXCEPT !.pc = "finally", !.why = "lowflow"]
                       ELSE dw' = added
                  ELSE dw' = [added EXCEPT !.low_set = FALSE]
    /\ UNCHANGED adcVars

\* lines 159-160: except Exception, the message
ExceptClause ==
    /\ dw.pc = "except"
    /\ dw' = [dw EXCEPT !.pc = "finally"]
    /\ UNCHANGED adcVars

\* lines 161-162: finally: _fail_safe_close(); a SystemExit on its way out
\* goes on after it
FinallyClause ==
    /\ dw.pc = "finally"
    /\ dw' = [dw EXCEPT !.valve = fail_safe_close(@),
                        !.pc = IF dw.exiting THEN "exited" ELSE "return"]
    /\ UNCHANGED adcVars

\* lines 164-165: return vol_gal
ReturnVolume ==
    /\ dw.pc = "return"
    /\ dw' = [dw EXCEPT !.pc = "returned", !.ret = dw.vol]
    /\ UNCHANGED adcVars

\* SIGINT or SIGTERM while draw_water runs: _signal_handler calls
\* _fail_safe_close() and sys.exit(1); the SystemExit is raised where the
\* function stands, is not caught by except Exception, and passes through
\* the finally when it is raised inside the try
SignalHandler ==
    /\ dw.pc \in {"open", "try", "loop", "except", "finally", "return"}
    /\ dw' = [dw EXCEPT !.valve = fail_safe_close(@), !.exiting = TRUE, !.why = "signal",
                        !.pc = IF dw.pc \in {"loop", "except"} THEN "finally" ELSE "exited"]
    /\ UNCHANGED adcVars

(***************************************************************************)
(* Specifications.                                                         *)
(***************************************************************************)
\* the setup and config registers of the device before the first write
DevicePowerOn == [setup |-> 130, config |-> 1]

Init(seeds) ==
    /\ pc = [c \in Callers |-> "idle"]
    /\ req = [c \in Callers |-> NoReq]
    /\ xf = [c \in Callers |-> NoFrame]
    /\ pending = [c \in Callers |-> << >>]
    /\ hist = [c \in Callers |-> NoHist]
    /\ out = [c \in Callers |-> NoOutcome]
    /\ devSetup = DevicePowerOn.setup
    /\ devConfig = DevicePowerOn.config
    /\ busLast = NoMsg
    /\ seed \in seeds
    /\ dw = DrawIdle

\* Spec: two threads share one Max1238 and call it again and again; the
\* analog inputs stay at pattern 0 and the bus returns as many bytes as were
\* asked for
SharedChannels == {2, 7}

SharedCounts == {0, 2}

Next ==
    \E c \in Callers :
        \/ setup_adc(c, {5}, {0}, {0}, {1})
        \/ read_single(c, {2, LastChannel + ChanSlack}, {SingleEnded})
        \/ read_range(c, SharedChannels, {SingleEnded})
        \/ read_multiple(c, {7}, SharedCounts, {SingleEnded})
        \/ BusTransfer(c, {0})
        \/ Return(c)

Spec == Init({0}) /\ [][Next]_vars

\* SpecCalls: one thread makes one call, over the whole range of arguments
AllChannels == (0 - ChanSlack)..(LastChannel + ChanSlack)

AllCounts == (0 - ChanSlack)..(LastChannel + 1 + ChanSlack)

Payloads ==
    { <<"None", << >>>>, <<"int", <<0 - 1>>>>, <<"int", <<97>>>>, <<"int", <<256>>>>,
      <<"seq", << >>>>, <<"seq", <<97>>>>, <<"seq", <<138, 97>>>>, <<"seq", <<97, 256>>>> }

NextCalls ==
    \/ setup_adc("c1", ReferenceVoltage, ClockType, Polarity, ResetMode)
    \/ read_single("c1", AllChannels, InputMode)
    \/ read_range("c1", AllChannels, InputMode)
    \/ read_multiple("c1", AllChannels, AllCounts, InputMode)
    \/ xfer("c1", Payloads, (0 - 1)..4, (0 - 1)..MaxRetries)
    \/ call_build_setup_byte("c1", ReferenceVoltage, ClockType, Polarity, ResetMode)
    \/ call_build_config_byte("c1", ScanMode, AllChannels, InputMode)
    \/ call_create_config_binary("c1", (0 - 1)..4, AllChannels, InputMode)
    \/ read_channel("c1", (0 - 1)..4, AllChannels, InputMode)
    \/ BusTransfer("c1", (0 - MaxLenDelta)..MaxLenDelta)

SpecCalls == Init(0..(NumSeeds - 1)) /\ [][NextCalls]_vars

(***************************************************************************)
(* The claims.  What a request asks for, stated from its arguments alone.  *)
(***************************************************************************)
ReadOps == {"read_single", "read_range", "read_multiple"}

InChannels(ch) == ch >= 0 /\ ch <= 11

\* the request is outside the documented bounds of its operation
OutOfBounds(r) ==
    CASE r.op = "read_single"   -> ~InChannels(r.a)
      [] r.op = "read_range"    -> r.a > r.b \/ ~InChannels(r.a) \/ ~InChannels(r.b)
      [] r.op = "read_multiple" -> ~InChannels(r.a) \/ r.b <= 0 \/ r.b > 12 - r.a
      [] r.op = "_xfer"         -> \/ r.a < 0
                                   \/ \E i \in 1..Len(r.wbytes) : r.wbytes[i] \notin 0..255
      [] r.op = "_build_config_byte" -> ~InChannels(r.b)
      [] r.op \in {"read_channel", "create_config_binary"} ->
                                   r.a \notin 0..3 \/ ~InChannels(r.b)
      [] OTHER                  -> FALSE

\* the scan origin, the last channel and the scan-mode code of a read request
PlanBase(r) == IF r.op = "read_single" THEN r.a ELSE IF r.a < 6 THEN 0 ELSE 6

PlanEnd(r) ==
    CASE r.op = "read_single" -> r.a
      [] r.op = "read_range"  -> r.b
      [] OTHER                -> r.a + r.b - 1

PlanScan(r) == IF r.op = "read_single" THEN 3 ELSE IF r.a < 6 THEN 0 ELSE 2

PlanWords(r) == PlanEnd(r) - PlanBase(r) + 1

\* the config byte of a read request, field by field
PlanConfig(r) == PlanScan(r) * 32 + PlanEnd(r) * 2 + r.d

\* the 12-bit word held by the byte pair at position k (from 0) of raw
WordAt(raw, k) == (raw[2 * k + 1] % 16) * 256 + raw[2 * k + 2]

Attempts(c) == hist[c].sent

AllFaulted(c) ==
    /\ Attempts(c) # << >>
    /\ \A i \in 1..Len(Attempts(c)) : Attempts(c)[i].fault # 0

LastSucceeded(c) ==
    /\ Attempts(c) # << >>
    /\ Attempts(c)[Len(Attempts(c))].fault = 0

\* C1: in Max1238._xfer a write payload and a read of one attempt go to the
\* bus as one combined transfer, so on a bus shared by several callers the
\* message right before each read of a caller is that caller's own write of
\* its config byte, and the bytes the caller got are the device's answer to
\* that config byte.
C1_WriteReadAtomic ==
    \A c \in Callers :
        (xf[c].has_write /\ xf[c].read_len > 0) =>
            /\ \A i \in 1..Len(hist[c].sent) :
                   hist[c].sent[i].msgs = <<WriteMsg(xf[c].to_write), ReadMsg(xf[c].read_len)>>
            /\ \A i \in 1..Len(hist[c].readPrev) :
                   hist[c].readPrev[i] =
                       [by |-> c, kind |-> "w", bytes |-> xf[c].to_write, len |-> 0]
            /\ hist[c].readPrev # << >> =>
                   hist[c].raw = DevResponse(PlanConfig(req[c]), seed, 2 * PlanWords(req[c]))

\* both callers have read, with different config bytes, and the second
\* caller's transfer came between two attempts of the first
C1_Witness ==
    /\ pc["c1"] = "done" /\ out["c1"].kind = "return"
    /\ Len(hist["c1"].sent) = 2 /\ hist["c1"].readPrev # << >>
    /\ pc["c2"] = "done" /\ out["c2"].kind = "return" /\ hist["c2"].readPrev # << >>
    /\ xf["c1"].to_write # xf["c2"].to_write
    /\ busLast.by = "c1"

\* C2: when every attempt of a transfer faulted, the call ends by raising the
\* bus fault; it returns nothing.
C2_PersistentFaultRaises ==
    \A c \in Callers :
        (pc[c] = "done" /\ AllFaulted(c) /\ req[c].op \in ReadOps \cup {"setup_adc", "_xfer"}) =>
            out[c].kind = "OSError"

C2_Witness ==
    /\ pc["c1"] = "done" /\ req["c1"].op = "read_range"
    /\ Len(Attempts("c1")) = 2 /\ AllFaulted("c1")
    /\ Attempts("c1")[1].fault = 1 /\ Attempts("c1")[2].fault = 2

\* the result request r gets from an immediate success on a working bus
ImmediateResult(r) ==
    Finish(r, DevResponse(PlanConfig(r), seed, 2 * PlanWords(r)))

\* C3 (as stated): for read_single, read_range and read_multiple, called with
\* the default retry count, a bus fault on the first attempt followed by
\* success on the second retry gives the result of an immediate success and
\* no error: after a fault on the first attempt no error is raised before
\* the second retry (the third attempt) has been made.
C3_NoErrorBeforeSecondRetry ==
    \A c \in Callers :
        (/\ pc[c] = "done" /\ req[c].op \in ReadOps
         /\ Len(Attempts(c)) >= 1 /\ Attempts(c)[1].fault # 0) =>
            \/ LastSucceeded(c) /\ out[c] = ImmediateResult(req[c])
            \/ Len(Attempts(c)) >= 3

\* C3 (amended): a bus fault on the first attempt is followed by exactly one
\* retry, the second attempt; when it succeeds the call returns the decoded
\* result of an immediate success and raises no error, and when it faults
\* too the bus fault is raised: there is no second retry.
C3_RetryGivesSameResult ==
    \A c \in Callers :
        (/\ pc[c] \in {"bus", "done"} /\ req[c].op \in ReadOps
         /\ Len(Attempts(c)) >= 1 /\ Attempts(c)[1].fault # 0) =>
            /\ pc[c] = "bus" => Len(Attempts(c)) = 1
            /\ pc[c] = "done" => Len(Attempts(c)) = 2
            /\ (pc[c] = "done" /\ LastSucceeded(c)) =>
                   /\ out[c] = ImmediateResult(req[c])
                   /\ out[c].kind = "return"
            /\ (pc[c] = "done" /\ ~LastSucceeded(c)) => out[c].kind = "OSError"

\* the first attempt failed at the read, the other caller then used the bus,
\* and the second attempt succeeded
C3_Witness ==
    /\ pc["c1"] = "done" /\ req["c1"].op = "read_multiple"
    /\ Len(Attempts("c1")) = 2 /\ Attempts("c1")[1].fault = 2 /\ LastSucceeded("c1")
    /\ out["c1"].kind = "return" /\ Len(out["c1"].val) = 2
    /\ hist["c2"].tx > 0

\* C4: read_range(start, end) with 0 <= start <= end <= 11, over a response
\* of the planned length, returns the channels start..end, each once, in
\* ascending order, the value of channel ch being the 12-bit word of the byte
\* pair at position ch - base of the response.
C4_ReadRangeResult ==
    \A c \in Callers :
        LET r == req[c]
        IN  (/\ pc[c] = "done" /\ r.op = "read_range" /\ ~OutOfBounds(r)
             /\ LastSucceeded(c) /\ Len(hist[c].raw) = 2 * PlanWords(r)) =>
                /\ out[c].kind = "return" /\ out[c].tag = "dict"
                /\ out[c].keys = [i \in 1..(r.b - r.a + 1) |-> r.a + i - 1]
                /\ Len(out[c].val) = r.b - r.a + 1
                /\ \A i \in 1..(r.b - r.a + 1) :
                       /\ out[c].val[i] = WordAt(hist[c].raw, r.a + i - 1 - PlanBase(r))
                       /\ out[c].val[i] = Sample(seed, r.a + i - 1)

\* read_range(6, 9) and read_range(3, 11) have returned
C4_Witness ==
    /\ pc["c1"] = "done" /\ req["c1"].op = "read_range"
    /\ req["c1"].a > 6 /\ req["c1"].a < req["c1"].b
    /\ out["c1"].kind = "return" /\ PadBits(seed) # 0
    /\ Len(hist["c1"].raw) = 2 * PlanWords(req["c1"])

\* C5: read_multiple(start, count) with start in 0..11 and
\* 1 <= count <= 12 - start, over a response of the planned length, drops
\* the start - base leading samples and returns exactly count samples, the
\* i-th one being that of channel start + i, in ascending channel order.
C5_ReadMultipleResult ==
    \A c \in Callers :
        LET r == req[c]
        IN  (/\ pc[c] = "done" /\ r.op = "read_multiple" /\ ~OutOfBounds(r)
             /\ LastSucceeded(c) /\ Len(hist[c].raw) = 2 * PlanWords(r)) =>
                /\ out[c].kind = "return" /\ out[c].tag = "list"
                /\ Len(out[c].val) = r.b
                /\ \A i \in 1..r.b :
                       /\ out[c].val[i] = WordAt(hist[c].raw, r.a - PlanBase(r) + i - 1)
                       /\ out[c].val[i] = Sample(seed, r.a + i - 1)

C5_Witness ==
    /\ pc["c1"] = "done" /\ req["c1"].op = "read_multiple"
    /\ req["c1"].a = 8 /\ req["c1"].b = 3
    /\ out["c1"].kind = "return" /\ Len(out["c1"].val) = 3
    /\ Len(hist["c1"].raw) = 10

\* the bus returned a byte sequence whose length is not 2 x wordCount
Malformed(c) ==
    /\ pc[c] = "done" /\ req[c].op \in ReadOps /\ ~OutOfBounds(req[c])
    /\ LastSucceeded(c) /\ Len(hist[c].raw) # 2 * PlanWords(req[c])

\* C6: when the bytes returned for a read are not 2 x wordCount long, the
\* read fails with a protocol error, distinguishable from a range error
\* (ValueError) and from a bus fault (OSError), and returns no result.
C6_LengthMismatchIsProtocolError ==
    \A c \in Callers :
        Malformed(c) => out[c].kind \notin {"return", "ValueError", "OSError"}

\* C7: read_single, read_range and read_multiple raise the range error
\* exactly for the requests outside their bounds; every request inside them
\* is accepted and goes to the bus.
C7_RangeErrorIffOutOfBounds ==
    \A c \in Callers :
        (pc[c] # "idle" /\ req[c].op \in ReadOps) =>
            IF OutOfBounds(req[c])
            THEN pc[c] = "done" /\ out[c].kind = "ValueError" /\ hist[c].tx = 0
            ELSE pc[c] = "bus" \/ hist[c].tx > 0

\* read_multiple(11, 1) was accepted, and so was read_range(0, 11)
C7_Witness ==
    /\ pc["c1"] = "done" /\ req["c1"].op = "read_multiple"
    /\ req["c1"].a = 11 /\ req["c1"].b = 1 /\ hist["c1"].tx > 0

\* C8: a request that fails validation has caused no bus transfer, no retry
\* and no delay, and has left the device and the bus as they were.
C8_RejectedBeforeBusAccess ==
    \A c \in Callers :
        (pc[c] # "idle" /\ req[c].op \in ReadOps \cup {"_xfer"} /\ OutOfBounds(req[c])) =>
            /\ pc[c] = "done" /\ out[c].kind = "ValueError"
            /\ hist[c] = NoHist /\ pending[c] = << >>
            /\ devSetup = DevicePowerOn.setup /\ devConfig = DevicePowerOn.config
            /\ busLast = NoMsg

\* _xfer was called with a valid write byte and read_len = -1
C8_Witness ==
    /\ pc["c1"] = "done" /\ req["c1"].op = "_xfer"
    /\ req["c1"].a < 0 /\ req["c1"].wbytes = <<97>>
    /\ out["c1"].kind = "ValueError"

\* C9: an invalid request, a bus fault on every attempt and a malformed
\* device response all end in a raised error, never in a normal return.
C9_NoSentinelReturn ==
    \A c \in Callers :
        (pc[c] = "done" /\ (OutOfBounds(req[c]) \/ AllFaulted(c) \/ Malformed(c))) =>
            out[c].kind # "return"

\* C10: for a channel in 0..11, _build_config_byte returns a byte with
\* bit 7 = 0, bits 6..5 = the scan mode, bits 4..1 = the channel and bit 0 =
\* the input mode; channel 0, ConvertSelected, SingleEnded gives 0x61.
C10_ConfigByteLayout ==
    \A c \in Callers :
        LET r == req[c]
            b == out[c].val[1]
        IN  (pc[c] = "done" /\ r.op = "_build_config_byte" /\ InChannels(r.b)) =>
                /\ out[c].kind = "return" /\ out[c].tag = "int"
                /\ b \in 0..255
                /\ b \div 128 = 0
                /\ (b \div 32) % 4 = r.a
                /\ (b \div 2) % 16 = r.b
                /\ b % 2 = r.d
                /\ (r.a = 3 /\ r.b = 0 /\ r.d = 1) => b = 97

C10_Witness ==
    /\ pc["c1"] = "done" /\ req["c1"].op = "_build_config_byte"
    /\ req["c1"].a = 3 /\ req["c1"].b = 0 /\ req["c1"].d = 1
    /\ out["c1"] = RetInt(97)

\* C11: for every reference voltage, clock, polarity and reset,
\* _build_setup_byte returns (it never fails) a byte in 0..255 with bit 7 = 1,
\* bits 6..4 = the reference-voltage code, bit 3 = the clock, bit 2 = the
\* polarity, bit 1 = the reset and bit 0 = 0; no other configuration gives
\* the same byte.
C11_SetupByteLayout ==
    \A c \in Callers :
        LET r == req[c]
            b == out[c].val[1]
        IN  (pc[c] = "done" /\ r.op = "_build_setup_byte") =>
                /\ out[c].kind = "return" /\ out[c].tag = "int"
                /\ b \in 0..255
                /\ b \div 128 = 1
                /\ (b \div 16) % 8 = r.a
                /\ (b \div 8) % 2 = r.b
                /\ (b \div 4) % 2 = r.c
                /\ (b \div 2) % 2 = r.d
                /\ b % 2 = 0
                /\ \A rv \in ReferenceVoltage, ck \in ClockType, po \in Polarity, rs \in ResetMode :
                       build_setup_byte(rv, ck, po, rs) = b => <<rv, ck, po, rs>> = <<r.a, r.b, r.c, r.d>>

\* the default configuration of setup_adc: InternalRef_AlwaysON_AnalogIn,
\* Internal, Unipolar, NoAction gives 0xD2
C11_Witness ==
    /\ pc["c1"] = "done" /\ req["c1"].op = "_build_setup_byte"
    /\ <<req["c1"].a, req["c1"].b, req["c1"].c, req["c1"].d>> = <<5, 0, 0, 1>>
    /\ out["c1"] = RetInt(210)

(***************************************************************************)
(* The decoding of a sample over all 12-bit values and all padding bits.   *)
(***************************************************************************)
NextDecode ==
    decode_word("c1", {"read_single", "read_range", "read_multiple"}, 0..4095, 0..15)

SpecDecode == Init({0}) /\ [][NextDecode]_vars

\* the sample and the padding bits that the pair raw carries
CarriedSample(raw) == (raw[1] % 16) * 256 + raw[2]

CarriedPad(raw) == raw[1] \div 16

\* C12: for every sample v in 0..4095 and every value of the four padding
\* bits, the pair (hi, lo) with v >> 8 in the low nibble of hi and
\* lo = v & 0xFF decodes to exactly v, in each of the three read
\* operations; every decoded sample lies in 0..4095.
C12_DecodeRoundTrip ==
    \A c \in Callers :
        LET raw == hist[c].raw
            v   == CarriedSample(raw)
        IN  (pc[c] = "done" /\ Len(raw) = 2 /\ hist[c].tx = 0) =>
                /\ v \in 0..4095
                /\ Decode12(raw[1], raw[2]) = v
                /\ req[c].op = "read_single" => out[c] = RetInt(v)
                /\ req[c].op = "read_range" => out[c] = RetDict(<<0>>, <<v>>)
                /\ req[c].op = "read_multiple" => out[c] = RetList(<<v>>)

\* the largest sample under all-ones padding: 0xFF 0xFF decodes to 4095
C12_Witness ==
    /\ pc["c1"] = "done" /\ req["c1"].op = "read_single"
    /\ hist["c1"].raw = <<255, 255>>
    /\ CarriedPad(hist["c1"].raw) = 15
    /\ out["c1"] = RetInt(4095)

\* C13: for a valid (start, end) the scan plan of read_range and of
\* read_multiple (end = start + count - 1) has base in {0, 6} with
\* base <= start, base = 0 exactly when start < 6 and the scan mode that
\* matches (ScanAIN0ToCS for 0, ScanAIN6ToCS for 6); the config byte carries
\* end in its channel field; end - base + 1 words are scanned and twice as
\* many bytes are requested.
C13_ScanPlan ==
    \A c \in Callers :
        LET r         == req[c]
            frame     == xf[c]
            cfg       == frame.to_write[1]
            end       == PlanEnd(r)
            wordCount == frame.read_len \div 2
            base      == end + 1 - wordCount
        IN  (pc[c] # "idle" /\ r.op \in {"read_range", "read_multiple"} /\ ~OutOfBounds(r)) =>
                /\ frame.has_write /\ Len(frame.to_write) = 1
                /\ base \in {0, 6}
                /\ base <= r.a
                /\ base = 0 <=> r.a < 6
                /\ cfg \div 128 = 0
                /\ (cfg \div 32) % 4 = (IF base = 0 THEN ScanAIN0ToCS ELSE ScanAIN6ToCS)
                /\ (cfg \div 2) % 16 = end
                /\ wordCount = end - base + 1
                /\ frame.read_len = 2 * wordCount
                /\ \A i \in 1..Len(Attempts(c)) :
                       Attempts(c)[i].msgs = <<WriteMsg(<<cfg>>), ReadMsg(2 * (end - base + 1))>>

\* read_multiple(6, 4): scan from AIN6 up to AIN9, 4 words in 8 bytes
C13_Witness ==
    /\ pc["c1"] = "done" /\ req["c1"].op = "read_multiple"
    /\ req["c1"].a = 6 /\ req["c1"].b = 4
    /\ xf["c1"].to_write = <<2 * 32 + 9 * 2 + req["c1"].d>>
    /\ xf["c1"].read_len = 8
    /\ Len(Attempts("c1")) = 1
    /\ out["c1"].kind = "return" /\ Len(out["c1"].val) = 4

\* C14: _xfer with no write payload and read_len = 0 returns the empty
\* sequence, issues no bus transaction and takes no delay, whatever the
\* retries and whatever the state of the bus.
C14_EmptyTransferIsNoOp ==
    \A c \in Callers :
        LET r == req[c]
        IN  (pc[c] # "idle" /\ r.op = "_xfer" /\ r.wkind = "None" /\ r.a = 0) =>
                /\ pc[c] = "done"
                /\ out[c] = RetList(<< >>)
                /\ hist[c].tx = 0 /\ hist[c].sleeps = 0 /\ Attempts(c) = << >>

C14_Witness ==
    /\ pc["c1"] = "done" /\ req["c1"].op = "_xfer"
    /\ req["c1"].wkind = "None" /\ req["c1"].a = 0 /\ req["c1"].b = MaxRetries
    /\ out["c1"] = RetList(<< >>)
    /\ hist["c1"] = NoHist

\* TRUE when every read the bus delivered to the call of c had the length
\* that was asked for
BusKeptLength(c) == hist[c].readPrev = << >> \/ Len(hist[c].raw) = xf[c].read_len

\* C15: whenever _xfer returns normally, for every write payload, every
\* read_len >= 0 and every integer retries, the returned sequence has
\* exactly read_len bytes, and for read_len > 0 these are the bytes of a bus
\* read that was performed.  (Violated: with retries < 0 the loop body never
\* runs and line 111 returns [] for any read_len.)
C15_ReturnHasReadLenBytes ==
    \A c \in Callers :
        LET r == req[c]
        IN  (pc[c] = "done" /\ r.op = "_xfer" /\ out[c].kind = "return" /\ r.a >= 0
                /\ BusKeptLength(c)) =>
                /\ out[c].tag = "list"
                /\ Len(out[c].val) = r.a
                /\ r.a > 0 => /\ LastSucceeded(c)
                              /\ hist[c].readPrev # << >>
                              /\ out[c].val = hist[c].raw

\* the operations of Max1238, which all go through _xfer
XferOps == {"_xfer", "setup_adc", "read_single", "read_range", "read_multiple"}

\* C16: after a transient fault every retry of _xfer issues the entire cycle
\* again, the same write payload followed by a read of the same length; when
\* a write payload was given no attempt is the read alone, whether the
\* attempt before it failed at the write or at the read.
C16_RetryReissuesWholeCycle ==
    \A c \in Callers :
        LET frame == xf[c]
            cycle == (IF frame.has_write THEN <<WriteMsg(frame.to_write)>> ELSE << >>)
                         \o (IF frame.read_len > 0 THEN <<ReadMsg(frame.read_len)>> ELSE << >>)
        IN  (pc[c] # "idle" /\ req[c].op \in XferOps) =>
                /\ \A i \in 1..Len(Attempts(c)) :
                       /\ Attempts(c)[i].msgs = cycle
                       /\ frame.has_write => Attempts(c)[i].msgs[1].kind = "w"
                       /\ i > 1 => Attempts(c)[i - 1].fault # 0
                /\ pc[c] = "bus" => pending[c] = <<cycle>>

\* three attempts of a write-then-read: the first failed at the write, the
\* second at the read, the third went through
C16_Witness ==
    /\ pc["c1"] = "done" /\ req["c1"].op = "_xfer"
    /\ xf["c1"].has_write /\ xf["c1"].to_write = <<138, 97>> /\ xf["c1"].read_len = 2
    /\ Len(Attempts("c1")) = 3
    /\ Attempts("c1")[1].fault = 1
    /\ Attempts("c1")[2].fault = 2
    /\ Attempts("c1")[3].fault = 0
    /\ Attempts("c1")[3].msgs = <<WriteMsg(<<138, 97>>), ReadMsg(2)>>

(***************************************************************************)
(* Direct _xfer calls of one thread under fair scheduling: i2c_rdwr is a   *)
(* blocking call that returns or raises, so a transfer that is due is made.*)
(***************************************************************************)
NextXfer ==
    \/ xfer("c1", Payloads, (0 - 1)..4, (0 - 1)..MaxRetries)
    \/ BusTransfer("c1", (0 - MaxLenDelta)..MaxLenDelta)

SpecXferFair ==
    /\ Init(0..(NumSeeds - 1))
    /\ [][NextXfer]_vars
    /\ WF_vars(BusTransfer("c1", (0 - MaxLenDelta)..MaxLenDelta))

\* the attempts of a call stay within retries + 1, only the last one can have
\* succeeded, and the OSError leaves the call only after retries + 1 faults
AttemptsWithinRetries ==
    \A c \in Callers :
        LET retries == xf[c].retries
            n       == Len(Attempts(c))
        IN  (pc[c] # "idle" /\ req[c].op \in XferOps /\ retries >= 0) =>
                /\ n <= retries + 1
                /\ \A i \in 1..(n - 1) : Attempts(c)[i].fault # 0
                /\ hist[c].tx = n
                /\ pc[c] = "bus" => n <= retries /\ (n = 0 \/ AllFaulted(c))
                /\ LastSucceeded(c) => pc[c] = "done" /\ out[c].kind # "OSError"
                /\ (pc[c] = "done" /\ out[c].kind = "OSError") => n = retries + 1 /\ AllFaulted(c)
                /\ (pc[c] = "done" /\ AllFaulted(c)) => n = retries + 1 /\ out[c] = Raise("OSError")

\* C17: every _xfer call with retries >= 0 terminates after at most
\* retries + 1 bus attempts: a success on any attempt ends the call at once,
\* and the fault is surfaced only after attempt number retries + 1 failed.
C17_TerminatesWithinRetries ==
    /\ []AttemptsWithinRetries
    /\ \A c \in Callers : (pc[c] = "bus") ~> (pc[c] = "done")

\* MaxRetries + 1 attempts, all faulted, then the OSError
C17_Witness ==
    /\ pc["c1"] = "done" /\ req["c1"].op = "_xfer"
    /\ xf["c1"].retries = MaxRetries
    /\ Len(Attempts("c1")) = MaxRetries + 1
    /\ AllFaulted("c1")
    /\ out["c1"] = Raise("OSError")

\* what the calls in progress have put on the bus: a read operation writes
\* one config byte (bit 7 = 0) ahead of its read, setup_adc writes one setup
\* byte (bit 7 = 1) and reads nothing
WritesByRegister ==
    \A c \in Callers :
        \A i \in 1..Len(Attempts(c)) :
            LET msgs == Attempts(c)[i].msgs
                b    == msgs[1].bytes[1]
            IN  /\ req[c].op \in ReadOps =>
                    /\ Len(msgs) = 2
                    /\ msgs[1].kind = "w" /\ Len(msgs[1].bytes) = 1
                    /\ b \in 0..127
                    /\ \A k \in 2..Len(msgs) : msgs[k].kind = "r"
                /\ req[c].op = "setup_adc" =>
                    /\ Len(msgs) = 1
                    /\ msgs[1].kind = "w" /\ Len(msgs[1].bytes) = 1
                    /\ b \in 128..255
                    /\ hist[c].readPrev = << >> /\ hist[c].raw = << >>

\* a step that changes the setup register is a transfer of a setup_adc call
\* and leaves that call's setup byte in it
SetupChangedBySetupAdc ==
    devSetup' # devSetup =>
        \E c \in Callers :
            /\ pc[c] = "bus" /\ req[c].op = "setup_adc"
            /\ hist'[c].tx = hist[c].tx + 1
            /\ devSetup' = build_setup_byte(req[c].a, req[c].b, req[c].c, req[c].d)

\* C18: the device's setup state is changed only by setup_adc: across any
\* sequence of read_single, read_range and read_multiple calls every byte
\* written is a single config byte with bit 7 = 0, so the setup register
\* keeps the value of the last setup_adc; setup_adc writes exactly one byte
\* with bit 7 = 1 and reads nothing.
C18_SetupChangedOnlyBySetupAdc ==
    /\ []WritesByRegister
    /\ [][SetupChangedBySetupAdc]_vars

\* the setup register holds the byte of an earlier setup_adc (0xD2, not the
\* power-on value) while both threads have completed reads after it
C18_Witness ==
    /\ devSetup = 210
    /\ \A c \in Callers :
           /\ pc[c] = "done" /\ req[c].op \in ReadOps
           /\ LastSucceeded(c)
           /\ out[c].kind = "return"

\* C19: for every accepted input of Max1239.create_config_binary (scan in
\* 0..3, channel in 0..11, either input mode) the byte has bit 7 = 0, the
\* fields sit in disjoint bits as in the config layout (scan in bits 6..5,
\* channel in bits 4..1, input mode in bit 0), and no other accepted input
\* gives the same byte.  (Violated: the code shifts scan by 6 and channel by
\* 4, so the fields overlap, scan >= 2 or channel >= 8 sets bit 7, and
\* (scan 1, channel 0) and (scan 0, channel 4) both give 0x40 | mode.)
C19_Max1239ConfigLayout ==
    \A c \in Callers :
        LET r == req[c]
            b == out[c].val[1]
        IN  (pc[c] = "done" /\ r.op = "create_config_binary"
                /\ r.a \in 0..3 /\ InChannels(r.b)) =>
                /\ out[c].kind = "return" /\ out[c].tag = "int"
                /\ b \in 0..255
                /\ b \div 128 = 0
                /\ (b \div 32) % 4 = r.a
                /\ (b \div 2) % 16 = r.b
                /\ b % 2 = r.d
                /\ \A scan \in 0..3, channel \in 0..LastChannel, mode \in InputMode :
                       create_config_binary(scan, channel, mode) = out[c]
                           => <<scan, channel, mode>> = <<r.a, r.b, r.d>>

(***************************************************************************)
(* One call of draw_water.                                                 *)
(***************************************************************************)
NextDraw ==
    \/ draw_water(Targets, ClockSteps)
    \/ OpenValve
    \/ EnterTry(ClockSteps)
    \/ LoopPass(ClockSteps, SensorRounds)
    \/ ExceptClause
    \/ FinallyClause
    \/ ReturnVolume
    \/ SignalHandler

SpecDraw == Init({0}) /\ [][NextDraw]_vars

\* C20: in draw_water the valve is closed (pin LOW) whenever the function
\* finishes, on every path: target reached, run-time limit, NaN sensor
\* value, persistent low flow, an exception from a sensor read, or an
\* interrupt; for a missing or non-positive target the valve is never
\* opened.
C20_ValveClosedWhenDrawEnds ==
    /\ dw.pc \in {"returned", "exited"} => dw.valve = "LOW"
    /\ (dw.pc # "idle" /\ (dw.none \/ dw.target <= 0)) =>
           /\ dw.pc = "returned" /\ dw.ret = 0
           /\ ~dw.opened /\ dw.valve = "LOW"
    /\ dw.pc = "returned" =>
           dw.why \in {"invalid", "target", "timeout", "nan", "lowflow", "exception"}
    /\ dw.pc = "exited" => dw.why = "signal"

\* the valve was opened, a sensor read raised, and the function has returned
\* with the valve closed
C20_Witness ==
    /\ dw.pc = "returned" /\ dw.why = "exception"
    /\ dw.opened /\ dw.valve = "LOW"
    /\ dw.vol > 0 /\ dw.ret = dw.vol

====
